---- MODULE Spec2Model ----
(***************************************************************************)
(* Model of the Clarity Capacitor plugin: the validators, the              *)
(* initialization flag and the five operations of each platform gateway    *)
(* (iOS, Android, the Android variant printed in the README, web).         *)
(*                                                                         *)
(* A string is a sequence of UTF-16 code units, each written as a          *)
(* one-element name ("a", "1", "SP", ...).  A missing argument is Absent.  *)
(***************************************************************************)
EXTENDS Integers, Sequences, FiniteSets, TLC

\* ------------------------------------------------------------------ bounds
\* Number of operation calls the host application issues in one run.
MaxCalls == 3

\* ------------------------------------------------------- program constants
ProjectIdMinLength == 8
ProjectIdMaxLength == 16
TagKeyMaxLength == 64
TagKeyTailMaxLength == 63
TagValueMaxLength == 1024

\* --------------------------------------------------------------- alphabet
Letters == {"a", "b", "c", "d", "e", "f", "g", "h", "i", "j", "k", "l", "m",
            "n", "o", "p", "q", "r", "s", "t", "u", "v", "w", "x", "y", "z",
            "A", "B", "C", "D", "E", "F", "G", "H", "I", "J", "K", "L", "M",
            "N", "O", "P", "Q", "R", "S", "T", "U", "V", "W", "X", "Y", "Z"}
Digits == {"0", "1", "2", "3", "4", "5", "6", "7", "8", "9"}
Hyphen == "-"
Underscore == "_"
\* U+0020 SPACE, U+000A LINE FEED, U+00A0 NO-BREAK SPACE, U+0001 START OF
\* HEADING (a control character), U+0301 COMBINING ACUTE ACCENT.
SP == "SP"
LF == "LF"
NBSP == "NBSP"
SOH == "SOH"
COMBINING == "U+0301"

\* What String.prototype.trim() strips (WhiteSpace and LineTerminator).
JsWhiteSpace == {SP, LF, NBSP}
\* What CharacterSet.whitespacesAndNewlines holds.
SwiftWhitespacesAndNewlines == {SP, LF, NBSP}
\* What java.lang.String.trim() strips: every code unit <= U+0020.
JavaTrimSet == {SP, LF, SOH}

\* A missing (null / undefined / nil) argument, and a vendor null result.
Absent == <<"ABSENT">>
Null == <<"NULL">>

Rep(c, n) == [i \in 1..n |-> c]

\* s with the leading and trailing code units of ws removed.
Trim(s, ws) ==
    LET keep == {i \in 1..Len(s) : s[i] \notin ws}
    IN  IF keep = {} THEN <<>>
        ELSE LET lo == CHOOSE i \in keep : \A j \in keep : i <= j
                 hi == CHOOSE i \in keep : \A j \in keep : j <= i
             IN  SubSeq(s, lo, hi)

\* ^[a-zA-Z0-9-]{8,16}$ over the whole of s.
MatchesProjectIdPattern(s) ==
    /\ Len(s) >= ProjectIdMinLength
    /\ Len(s) <= ProjectIdMaxLength
    /\ \A i \in 1..Len(s) : s[i] \in Letters \cup Digits \cup {Hyphen}

\* ^[a-zA-Z][a-zA-Z0-9_]{0,63}$ over the whole of s.
MatchesTagKeyPattern(s) ==
    /\ Len(s) >= 1
    /\ s[1] \in Letters
    /\ Len(s) - 1 <= TagKeyTailMaxLength
    /\ \A i \in 2..Len(s) : s[i] \in Letters \cup Digits \cup {Underscore}

\* ------------------------------------------------ validators, definitions.ts
isValidProjectId(projectId) ==
    IF projectId = Absent \/ projectId = <<>> THEN FALSE
    ELSE MatchesProjectIdPattern(Trim(projectId, JsWhiteSpace))

isValidTagKey(key) ==
    IF key = Absent \/ key = <<>> THEN FALSE
    ELSE MatchesTagKeyPattern(Trim(key, JsWhiteSpace))

isValidTagValue(value) ==
    IF value = Absent THEN FALSE
    ELSE Len(value) <= TagValueMaxLength

isValidEventName(eventName) ==
    IF eventName = Absent \/ eventName = <<>> THEN FALSE
    ELSE MatchesTagKeyPattern(Trim(eventName, JsWhiteSpace))

\* ------------------------------------------ validators, ClarityPlugin.swift
\* String.count counts grapheme clusters: a combining mark joins the code
\* unit before it.
SwiftCount(s) ==
    Cardinality({i \in 1..Len(s) : ~(i > 1 /\ s[i] = COMBINING)})

\* The search range NSRange(location: 0, length: trimmed.count): the first
\* trimmed.count code units; ^ and $ anchor at the bounds of the range.
SwiftSearchRange(trimmed) == SubSeq(trimmed, 1, SwiftCount(trimmed))

IosIsValidProjectId(projectId) ==
    LET trimmed == Trim(projectId, SwiftWhitespacesAndNewlines)
    IN  MatchesProjectIdPattern(SwiftSearchRange(trimmed))

IosIsValidTagKey(key) ==
    LET trimmed == Trim(key, SwiftWhitespacesAndNewlines)
    IN  IF SwiftCount(trimmed) = 0 \/ SwiftCount(trimmed) > TagKeyMaxLength
        THEN FALSE
        ELSE MatchesTagKeyPattern(SwiftSearchRange(trimmed))

IosIsValidTagValue(value) == SwiftCount(value) <= TagValueMaxLength

IosIsValidEventName(eventName) ==
    LET trimmed == Trim(eventName, SwiftWhitespacesAndNewlines)
    IN  IF SwiftCount(trimmed) = 0 \/ SwiftCount(trimmed) > TagKeyMaxLength
        THEN FALSE
        ELSE MatchesTagKeyPattern(SwiftSearchRange(trimmed))

\* ------------------------- validators, the Android variant of README.md
ReadmeIsValidProjectId(projectId) ==
    /\ projectId # Absent
    /\ MatchesProjectIdPattern(Trim(projectId, JavaTrimSet))

ReadmeIsValidTagKey(key) ==
    /\ key # Absent
    /\ Trim(key, JavaTrimSet) # <<>>
    /\ Len(Trim(key, JavaTrimSet)) <= TagKeyMaxLength
    /\ MatchesTagKeyPattern(Trim(key, JavaTrimSet))

ReadmeIsValidTagValue(value) ==
    /\ value # Absent
    /\ Len(value) <= TagValueMaxLength

ReadmeIsValidEventName(eventName) ==
    /\ eventName # Absent
    /\ Trim(eventName, JavaTrimSet) # <<>>
    /\ Len(Trim(eventName, JavaTrimSet)) <= TagKeyMaxLength
    /\ MatchesTagKeyPattern(Trim(eventName, JavaTrimSet))

\* ----------------------------------------------------- outcomes of a call
\* The vendor SDK calls a step makes, in order.
VendorCall(fn, a1, a2) == [fn |-> fn, a1 |-> a1, a2 |-> a2]

\* call.resolve() / call.resolve(data) / return Promise.resolve(data)
Resolve(value, vcalls) ==
    [kind |-> "Resolved", msg |-> "", value |-> value, vcalls |-> vcalls]

\* call.reject(message) / throw new Error(message)
Reject(msg, vcalls) ==
    [kind |-> "Rejected", msg |-> msg, value |-> Null, vcalls |-> vcalls]

\* The call is neither resolved nor rejected by the handler: its closure
\* waits on the main / UI thread.
Dispatch == [kind |-> "Dispatched", msg |-> "", value |-> Null, vcalls |-> <<>>]

MsgProjectIdRequired == "Project ID is required"
MsgInvalidProjectId == "Invalid project ID format."
MsgTagKeyRequired == "Tag key is required"
MsgTagValueRequired == "Tag value is required"
MsgInvalidTagKey == "Invalid tag key format."
MsgInvalidTagValue == "Invalid tag value."
MsgEventNameRequired == "Event name is required"
MsgInvalidEventName == "Invalid event name format."
MsgNotInitialized == "Clarity not initialized. Call initialize() first."
MsgInitializeFailed == "Failed to initialize Clarity"
MsgSetCustomTagFailed == "Failed to set custom tag"
MsgLogEventFailed == "Failed to log event"
MsgSessionIdFailed == "Failed to get session ID"
MsgSessionUrlFailed == "Failed to get session URL"

\* The failure condition of the operation table a rejection message stands for.
ErrorKind(msg) ==
    CASE msg \in {MsgProjectIdRequired, MsgInvalidProjectId, MsgTagKeyRequired,
                  MsgTagValueRequired, MsgInvalidTagKey, MsgInvalidTagValue,
                  MsgEventNameRequired, MsgInvalidEventName} -> "InvalidInput"
      [] msg = MsgNotInitialized -> "NotInitialized"
      [] msg = MsgInitializeFailed -> "InitializationFailure"
      [] msg \in {MsgSetCustomTagFailed, MsgLogEventFailed, MsgSessionIdFailed,
                  MsgSessionUrlFailed} -> "DelegateFailure"
      [] OTHER -> "None"

\* ------------------------------------------------- ClarityPlugin.swift (iOS)
\* The vendor calls are made without `try`: they cannot throw, and the catch
\* blocks of the Swift handlers never run.
IosInitialize(initialized, projectId) ==
    IF projectId = Absent \/ projectId = <<>> THEN Reject(MsgProjectIdRequired, <<>>)
    ELSE IF ~IosIsValidProjectId(projectId) THEN Reject(MsgInvalidProjectId, <<>>)
    ELSE IF initialized THEN Resolve(Null, <<>>)
    ELSE Dispatch

IosSetCustomTag(initialized, key, value) ==
    IF key = Absent \/ key = <<>> THEN Reject(MsgTagKeyRequired, <<>>)
    ELSE IF value = Absent THEN Reject(MsgTagValueRequired, <<>>)
    ELSE IF ~IosIsValidTagKey(key) THEN Reject(MsgInvalidTagKey, <<>>)
    ELSE IF ~IosIsValidTagValue(value) THEN Reject(MsgInvalidTagValue, <<>>)
    ELSE IF ~initialized THEN Reject(MsgNotInitialized, <<>>)
    ELSE Resolve(Null, <<VendorCall("setCustomTag", key, value)>>)

\* Mutant: the initialization check moved in front of the argument checks.
IosLogEventGateFirst(initialized, eventName) ==
    IF ~initialized THEN Reject(MsgNotInitialized, <<>>)
    ELSE IF eventName = Absent \/ eventName = <<>> THEN Reject(MsgEventNameRequired, <<>>)
    ELSE IF ~IosIsValidEventName(eventName) THEN Reject(MsgInvalidEventName, <<>>)
    ELSE Resolve(Null, <<VendorCall("setCustomTag", eventName, <<"t", "r", "u", "e">>)>>)

IosLogEvent(initialized, eventName) ==
    IF eventName = Absent \/ eventName = <<>> THEN Reject(MsgEventNameRequired, <<>>)
    ELSE IF ~IosIsValidEventName(eventName) THEN Reject(MsgInvalidEventName, <<>>)
    ELSE IF ~initialized THEN Reject(MsgNotInitialized, <<>>)
    ELSE Resolve(Null, <<VendorCall("setCustomTag", eventName, <<"t", "r", "u", "e">>)>>)

\* Mutant: the `guard isInitialized` left out.
IosGetCurrentSessionIdUngated(initialized, sessionId) ==
    Resolve(sessionId, <<VendorCall("getCurrentSessionId", <<>>, <<>>)>>)

IosGetCurrentSessionId(initialized, sessionId) ==
    IF ~initialized THEN Reject(MsgNotInitialized, <<>>)
    ELSE Resolve(sessionId, <<VendorCall("getCurrentSessionId", <<>>, <<>>)>>)

IosGetCurrentSessionUrl(initialized, url) ==
    IF ~initialized THEN Reject(MsgNotInitialized, <<>>)
    ELSE Resolve(url, <<VendorCall("getCurrentSessionUrl", <<>>, <<>>)>>)

\* --------------------------------------------- ClarityPlugin.java (Android)
\* JSObject.put(key, null) leaves the key out of the result.
JSObjectPut(v) == IF v = Null THEN Absent ELSE v

\* Mutant: the `if (isInitialized)` early return left out.
AndroidInitializeNoFlagCheck(initialized, projectId) ==
    IF projectId = Absent \/ projectId = <<>> THEN Reject(MsgProjectIdRequired, <<>>)
    ELSE Dispatch

AndroidInitialize(initialized, projectId) ==
    IF projectId = Absent \/ projectId = <<>> THEN Reject(MsgProjectIdRequired, <<>>)
    ELSE IF initialized THEN Resolve(Null, <<>>)
    ELSE Dispatch

\* Mutant: the catch block swallows the vendor's error and resolves the call.
AndroidSetCustomTagSwallowsError(initialized, key, value, throws) ==
    IF key = Absent \/ key = <<>> THEN Reject(MsgTagKeyRequired, <<>>)
    ELSE IF value = Absent \/ value = <<>> THEN Reject(MsgTagValueRequired, <<>>)
    ELSE IF ~initialized THEN Reject(MsgNotInitialized, <<>>)
    ELSE Resolve(Null, <<VendorCall("setCustomTag", key, value)>>)

AndroidSetCustomTag(initialized, key, value, throws) ==
    IF key = Absent \/ key = <<>> THEN Reject(MsgTagKeyRequired, <<>>)
    ELSE IF value = Absent \/ value = <<>> THEN Reject(MsgTagValueRequired, <<>>)
    ELSE IF ~initialized THEN Reject(MsgNotInitialized, <<>>)
    ELSE IF throws THEN Reject(MsgSetCustomTagFailed, <<VendorCall("setCustomTag", key, value)>>)
    ELSE Resolve(Null, <<VendorCall("setCustomTag", key, value)>>)

AndroidLogEvent(initialized, eventName, throws) ==
    IF eventName = Absent \/ eventName = <<>> THEN Reject(MsgEventNameRequired, <<>>)
    ELSE IF ~initialized THEN Reject(MsgNotInitialized, <<>>)
    ELSE IF throws
         THEN Reject(MsgLogEventFailed,
                     <<VendorCall("setCustomTag", eventName, <<"t", "r", "u", "e">>)>>)
    ELSE Resolve(Null, <<VendorCall("setCustomTag", eventName, <<"t", "r", "u", "e">>)>>)

\* Mutant: the gateway answers from a session id it has kept, without
\* asking the vendor.
AndroidGetCurrentSessionIdCached(initialized, sessionId, throws) ==
    IF ~initialized THEN Reject(MsgNotInitialized, <<>>)
    ELSE Resolve(<<"s", "1">>, <<>>)

AndroidGetCurrentSessionId(initialized, sessionId, throws) ==
    IF ~initialized THEN Reject(MsgNotInitialized, <<>>)
    ELSE IF throws
         THEN Reject(MsgSessionIdFailed, <<VendorCall("getCurrentSessionId", <<>>, <<>>)>>)
    ELSE Resolve(JSObjectPut(sessionId), <<VendorCall("getCurrentSessionId", <<>>, <<>>)>>)

AndroidGetCurrentSessionUrl(initialized, url, throws) ==
    IF ~initialized THEN Reject(MsgNotInitialized, <<>>)
    ELSE IF throws
         THEN Reject(MsgSessionUrlFailed, <<VendorCall("getCurrentSessionUrl", <<>>, <<>>)>>)
    ELSE Resolve(JSObjectPut(url), <<VendorCall("getCurrentSessionUrl", <<>>, <<>>)>>)

\* ------------------------------ the Android ClarityPlugin of README.md
ReadmeInitialize(initialized, projectId) ==
    IF projectId = Absent \/ projectId = <<>> THEN Reject(MsgProjectIdRequired, <<>>)
    ELSE IF ~ReadmeIsValidProjectId(projectId) THEN Reject(MsgInvalidProjectId, <<>>)
    ELSE IF initialized THEN Resolve(Null, <<>>)
    ELSE Dispatch

ReadmeSetCustomTag(initialized, key, value, throws) ==
    IF key = Absent \/ key = <<>> THEN Reject(MsgTagKeyRequired, <<>>)
    ELSE IF value = Absent THEN Reject(MsgTagValueRequired, <<>>)
    ELSE IF ~ReadmeIsValidTagKey(key) THEN Reject(MsgInvalidTagKey, <<>>)
    ELSE IF ~ReadmeIsValidTagValue(value) THEN Reject(MsgInvalidTagValue, <<>>)
    ELSE IF ~initialized THEN Reject(MsgNotInitialized, <<>>)
    ELSE IF throws THEN Reject(MsgSetCustomTagFailed, <<VendorCall("setCustomTag", key, value)>>)
    ELSE Resolve(Null, <<VendorCall("setCustomTag", key, value)>>)

\* Mutant: the event is forwarded with the value "1" instead of "true".
ReadmeLogEventValueOne(initialized, eventName, throws) ==
    IF eventName = Absent \/ eventName = <<>> THEN Reject(MsgEventNameRequired, <<>>)
    ELSE IF ~ReadmeIsValidEventName(eventName) THEN Reject(MsgInvalidEventName, <<>>)
    ELSE IF ~initialized THEN Reject(MsgNotInitialized, <<>>)
    ELSE IF throws
         THEN Reject(MsgLogEventFailed, <<VendorCall("setCustomTag", eventName, <<"1">>)>>)
    ELSE Resolve(Null, <<VendorCall("setCustomTag", eventName, <<"1">>)>>)

ReadmeLogEvent(initialized, eventName, throws) ==
    IF eventName = Absent \/ eventName = <<>> THEN Reject(MsgEventNameRequired, <<>>)
    ELSE IF ~ReadmeIsValidEventName(eventName) THEN Reject(MsgInvalidEventName, <<>>)
    ELSE IF ~initialized THEN Reject(MsgNotInitialized, <<>>)
    ELSE IF throws
         THEN Reject(MsgLogEventFailed,
                     <<VendorCall("setCustomTag", eventName, <<"t", "r", "u", "e">>)>>)
    ELSE Resolve(Null, <<VendorCall("setCustomTag", eventName, <<"t", "r", "u", "e">>)>>)

\* --------------------------------------------------------- web.ts (ClarityWeb)
\* The web handlers only print a warning: they make no vendor call.
WebInitialize(projectId) ==
    IF ~isValidProjectId(projectId) THEN Reject(MsgInvalidProjectId, <<>>)
    ELSE Resolve(Null, <<>>)

\* Mutant: the strict variant for one operation, the arguments checked before
\* the flag.
WebSetCustomTagValidatesFirst(initialized, key, value) ==
    IF ~isValidTagKey(key) THEN Reject(MsgInvalidTagKey, <<>>)
    ELSE IF ~isValidTagValue(value) THEN Reject(MsgInvalidTagValue, <<>>)
    ELSE IF ~initialized THEN Reject(MsgNotInitialized, <<>>)
    ELSE Resolve(Null, <<>>)

WebSetCustomTag(initialized, key, value) ==
    IF ~initialized THEN Reject(MsgNotInitialized, <<>>)
    ELSE IF ~isValidTagKey(key) THEN Reject(MsgInvalidTagKey, <<>>)
    ELSE IF ~isValidTagValue(value) THEN Reject(MsgInvalidTagValue, <<>>)
    ELSE Resolve(Null, <<>>)

WebLogEvent(initialized, eventName) ==
    IF ~initialized THEN Reject(MsgNotInitialized, <<>>)
    ELSE IF ~isValidEventName(eventName) THEN Reject(MsgInvalidEventName, <<>>)
    ELSE Resolve(Null, <<>>)

WebGetCurrentSessionId(initialized) ==
    IF ~initialized THEN Reject(MsgNotInitialized, <<>>)
    ELSE Resolve(Null, <<>>)

WebGetCurrentSessionUrl(initialized) ==
    IF ~initialized THEN Reject(MsgNotInitialized, <<>>)
    ELSE Resolve(Null, <<>>)

\* ------------------------------------------------------------------ state
VARIABLES
    platform,       \* the gateway the bridge routes to in this process
    isInitialized,  \* ClarityPlugin.isInitialized / ClarityWeb.isInitialized
    uiQueue,        \* initialize closures posted to the main / UI thread
    vendorCalls,    \* how often each vendor SDK entry point has been called
    vendorSession,  \* the session id and url the vendor SDK holds (its own)
    nCalls,         \* operation calls issued so far
    completions,    \* calls resolved and calls rejected so far
    last,           \* the step taken last: its call, its outcome, its vendor calls
    vendorProjectId,\* the projectId of the vendor initialize that returned last
    input,          \* the string handed to the validators
    verdict         \* what each platform's validator answered for input

vars == <<platform, isInitialized, uiQueue, vendorCalls, vendorSession,
          nCalls, completions, last, vendorProjectId, input, verdict>>

Platforms == {"ios", "android", "readme", "web"}
Native == {"ios", "android", "readme"}

\* Whether a vendor call can raise an error the handler catches: a Java call
\* can, a Swift call made without `try` cannot.
VendorThrows(p) == IF p \in {"android", "readme"} THEN {FALSE, TRUE} ELSE {FALSE}

\* ----------------------------------------------------------------- inputs
ProjectIdInputs ==
    { Absent, <<>>,
      <<"s", "h", "o", "r", "t">>,
      <<"a", "b", "c", "d", "e", "f", "g", "h">>,
      <<SP, "A", "b", "c", "d", "-", "1", "2", "3", "4", SP>>,
      Rep("a", ProjectIdMaxLength + 1) }

KeyInputs ==
    { Absent, <<>>,
      <<"p", "l", "a", "n">>,
      <<"1", "t", "y", "p", "e">>,
      <<SP, "u", "_", "1">>,
      Rep("k", TagKeyMaxLength + 1) }

ValueInputs ==
    { Absent, <<>>,
      <<"x">>,
      <<"t", "r", "u", "e">>,
      Rep("v", TagValueMaxLength),
      Rep("v", TagValueMaxLength + 1) }

EventNameInputs == KeyInputs

\* The (key, value) pairs setCustomTag is called with: every key with the
\* value "true", one valid key with every value, and pairs wrong in both.
TagInputs ==
    {<<k, <<"t", "r", "u", "e">>>> : k \in KeyInputs}
    \cup {<<<<"p", "l", "a", "n">>, v>> : v \in ValueInputs}
    \cup { <<Absent, Absent>>,
           <<<<"1", "t", "y", "p", "e">>, Rep("v", TagValueMaxLength + 1)>> }

VendorSessions ==
    { [id |-> Null, url |-> Null],
      [id |-> <<>>, url |-> <<>>],
      [id |-> <<"s", "1">>, url |-> <<"u", "1">>],
      [id |-> <<"s", "2">>, url |-> Null] }

\* --------------------------------------------- the gateway of each platform
InitializeOutcome(p, initialized, projectId) ==
    CASE p = "ios" -> IosInitialize(initialized, projectId)
      [] p = "android" -> AndroidInitialize(initialized, projectId)
      [] p = "readme" -> ReadmeInitialize(initialized, projectId)
      [] p = "web" -> WebInitialize(projectId)

SetCustomTagOutcome(p, initialized, key, value, throws) ==
    CASE p = "ios" -> IosSetCustomTag(initialized, key, value)
      [] p = "android" -> AndroidSetCustomTag(initialized, key, value, throws)
      [] p = "readme" -> ReadmeSetCustomTag(initialized, key, value, throws)
      [] p = "web" -> WebSetCustomTag(initialized, key, value)

LogEventOutcome(p, initialized, eventName, throws) ==
    CASE p = "ios" -> IosLogEvent(initialized, eventName)
      [] p = "android" -> AndroidLogEvent(initialized, eventName, throws)
      [] p = "readme" -> ReadmeLogEvent(initialized, eventName, throws)
      [] p = "web" -> WebLogEvent(initialized, eventName)

GetCurrentSessionIdOutcome(p, initialized, sessionId, throws) ==
    CASE p = "ios" -> IosGetCurrentSessionId(initialized, sessionId)
      [] p \in {"android", "readme"} ->
            AndroidGetCurrentSessionId(initialized, sessionId, throws)
      [] p = "web" -> WebGetCurrentSessionId(initialized)

GetCurrentSessionUrlOutcome(p, initialized, url, throws) ==
    CASE p = "ios" -> IosGetCurrentSessionUrl(initialized, url)
      [] p \in {"android", "readme"} ->
            AndroidGetCurrentSessionUrl(initialized, url, throws)
      [] p = "web" -> WebGetCurrentSessionUrl(initialized)

\* Mutant: the catch block of the closure only logs the vendor's error, the
\* call is neither resolved nor rejected.
InitializeClosureDropsCall(projectId, throws) ==
    IF throws
    THEN [kind |-> "Dropped", msg |-> "", value |-> Null,
          vcalls |-> <<VendorCall("initialize", projectId, <<>>)>>]
    ELSE Resolve(Null, <<VendorCall("initialize", projectId, <<>>)>>)

\* The closure initialize posts to the main / UI thread: the vendor
\* initialize, then (unless it threw) the flag and call.resolve().
InitializeClosure(projectId, throws) ==
    IF throws
    THEN Reject(MsgInitializeFailed, <<VendorCall("initialize", projectId, <<>>)>>)
    ELSE Resolve(Null, <<VendorCall("initialize", projectId, <<>>)>>)

\* Mutant: ClarityWeb.initialize resolves without assigning the flag.
FlagAfterHandlerNeverSet(p, op, initialized, out) == initialized

\* isInitialized after a handler has run: only ClarityWeb.initialize assigns
\* it in the handler itself (web.ts line 28), after the projectId check.
FlagAfterHandler(p, op, initialized, out) ==
    IF p = "web" /\ op = "initialize" /\ out.kind = "Resolved" THEN TRUE
    ELSE initialized

\* Mutant: the flag is set before the vendor initialize, so a failed call
\* sets it too.
FlagAfterClosureAlways(initialized, out) == TRUE

\* isInitialized after the closure has run.
FlagAfterClosure(initialized, out) ==
    IF out.kind = "Resolved" THEN TRUE ELSE initialized

\* ---------------------------------------------------------------- actions
NoStep ==
    [step |-> "none", op |-> "none", a1 |-> <<>>, a2 |-> <<>>, init |-> FALSE,
     throws |-> FALSE, kind |-> "none", msg |-> "", value |-> Null,
     vcalls |-> <<>>, seen |-> <<>>, flag |-> FALSE, ret |-> Null,
     thread |-> "none"]

\* The thread a step runs on: a handler runs on the thread the bridge invoked
\* the plugin method on, a posted closure on the main / UI thread.
ThreadOf(step) == IF step = "closure" THEN "main" ELSE "bridge"

\* What the vendor's session getter returned to a handler that queried it and
\* went on to resolve (Null: nil / null, or no query that returned).
VendorReturn(op, out, session) ==
    IF out.kind = "Resolved" /\ out.vcalls # <<>> /\ op = "getCurrentSessionId"
    THEN session.id
    ELSE IF out.kind = "Resolved" /\ out.vcalls # <<>> /\ op = "getCurrentSessionUrl"
    THEN session.url
    ELSE Null

NoVerdict == [fn |-> "none", js |-> FALSE, ios |-> FALSE, readme |-> FALSE]

\* What a step did: the call (op, a1, a2), the flag before (init) and after
\* (flag), whether a vendor call it made threw, the outcome, for a closure
\* the projectIds of the closures that called the vendor while it waited (seen),
\* what a vendor session getter returned (ret) and the thread it ran on.
StepRecord(step, op, a1, a2, init, throws, out, seen, flag, ret) ==
    [step |-> step, op |-> op, a1 |-> a1, a2 |-> a2, init |-> init,
     throws |-> throws, kind |-> out.kind, msg |-> out.msg, value |-> out.value,
     vcalls |-> out.vcalls, seen |-> seen, flag |-> flag, ret |-> ret,
     thread |-> ThreadOf(step)]

CountVendorCalls(counts, vcalls) ==
    [fn \in DOMAIN counts |->
        counts[fn] + Cardinality({i \in 1..Len(vcalls) : vcalls[i].fn = fn})]

CountCompletion(c, out) ==
    [resolved |-> c.resolved + (IF out.kind = "Resolved" THEN 1 ELSE 0),
     rejected |-> c.rejected + (IF out.kind = "Rejected" THEN 1 ELSE 0)]

Init ==
    /\ platform \in Platforms
    /\ isInitialized = FALSE
    /\ uiQueue = <<>>
    /\ vendorCalls = [initialize |-> 0, setCustomTag |-> 0,
                      getCurrentSessionId |-> 0, getCurrentSessionUrl |-> 0]
    /\ vendorSession = [id |-> Null, url |-> Null]
    /\ nCalls = 0
    /\ completions = [resolved |-> 0, rejected |-> 0]
    /\ last = NoStep
    /\ vendorProjectId = Null
    /\ input = Absent
    /\ verdict = NoVerdict

\* A handler has run to its end on the bridge's thread with outcome out.
Handled(op, a1, a2, throws, out) ==
    /\ nCalls' = nCalls + 1
    /\ isInitialized' = FlagAfterHandler(platform, op, isInitialized, out)
    /\ uiQueue' = IF out.kind = "Dispatched"
                  THEN Append(uiQueue, [projectId |-> a1, seen |-> <<>>])
                  ELSE uiQueue
    /\ vendorCalls' = CountVendorCalls(vendorCalls, out.vcalls)
    /\ completions' = CountCompletion(completions, out)
    /\ last' = StepRecord("handler", op, a1, a2, isInitialized,
                          throws /\ out.vcalls # <<>>, out, <<>>,
                          FlagAfterHandler(platform, op, isInitialized, out),
                          VendorReturn(op, out, vendorSession))
    /\ UNCHANGED <<platform, vendorSession, vendorProjectId, input, verdict>>

Initialize(projectId) ==
    /\ nCalls < MaxCalls
    /\ Handled("initialize", projectId, <<>>, FALSE,
               InitializeOutcome(platform, isInitialized, projectId))

SetCustomTag(key, value, throws) ==
    /\ nCalls < MaxCalls
    /\ Handled("setCustomTag", key, value, throws,
               SetCustomTagOutcome(platform, isInitialized, key, value, throws))

LogEvent(eventName, throws) ==
    /\ nCalls < MaxCalls
    /\ Handled("logEvent", eventName, <<>>, throws,
               LogEventOutcome(platform, isInitialized, eventName, throws))

GetCurrentSessionId(throws) ==
    /\ nCalls < MaxCalls
    /\ Handled("getCurrentSessionId", <<>>, <<>>, throws,
               GetCurrentSessionIdOutcome(platform, isInitialized,
                                          vendorSession.id, throws))

GetCurrentSessionUrl(throws) ==
    /\ nCalls < MaxCalls
    /\ Handled("getCurrentSessionUrl", <<>>, <<>>, throws,
               GetCurrentSessionUrlOutcome(platform, isInitialized,
                                           vendorSession.url, throws))

\* The main / UI thread runs the closure at the head of its queue.
RunOnUiThread(throws) ==
    /\ uiQueue # <<>>
    /\ LET head == Head(uiQueue)
           out == InitializeClosure(head.projectId, throws)
       IN  /\ isInitialized' = FlagAfterClosure(isInitialized, out)
           /\ uiQueue' = [i \in 1..(Len(uiQueue) - 1) |->
                            [uiQueue[i + 1] EXCEPT
                                !.seen = Append(@, head.projectId)]]
           /\ vendorCalls' = CountVendorCalls(vendorCalls, out.vcalls)
           /\ completions' = CountCompletion(completions, out)
           /\ last' = StepRecord("closure", "initialize", head.projectId, <<>>,
                                 isInitialized, throws, out, head.seen,
                                 FlagAfterClosure(isInitialized, out), Null)
           /\ vendorProjectId' = IF out.kind = "Resolved" THEN head.projectId
                                 ELSE vendorProjectId
    /\ UNCHANGED <<platform, vendorSession, nCalls, input, verdict>>

\* The vendor SDK, once it has been started, begins, ends or rotates its
\* session on its own.
VendorSessionChange(s) ==
    /\ platform \in Native
    /\ vendorCalls.initialize > 0
    /\ s # vendorSession
    /\ vendorSession' = s
    /\ UNCHANGED <<platform, isInitialized, uiQueue, vendorCalls, nCalls,
                   completions, last, vendorProjectId, input, verdict>>

Next ==
    \/ \E projectId \in ProjectIdInputs : Initialize(projectId)
    \/ \E kv \in TagInputs, throws \in VendorThrows(platform) :
          SetCustomTag(kv[1], kv[2], throws)
    \/ \E eventName \in EventNameInputs, throws \in VendorThrows(platform) :
          LogEvent(eventName, throws)
    \/ \E throws \in VendorThrows(platform) : GetCurrentSessionId(throws)
    \/ \E throws \in VendorThrows(platform) : GetCurrentSessionUrl(throws)
    \/ \E throws \in VendorThrows(platform) : RunOnUiThread(throws)
    \/ \E s \in VendorSessions : VendorSessionChange(s)

Spec == Init /\ [][Next]_vars

TypeOK ==
    /\ platform \in Platforms
    /\ isInitialized \in BOOLEAN
    /\ nCalls \in 0..MaxCalls
    /\ Len(uiQueue) <= nCalls
    /\ vendorSession \in VendorSessions

\* ================================================================ claims
OtherOps == {"setCustomTag", "logEvent", "getCurrentSessionId", "getCurrentSessionUrl"}

\* The last step was the handler of op, entered with isInitialized = init.
HandlerOf(op, init) == last.step = "handler" /\ last.op = op /\ last.init = init

TagCall(key, value) == <<VendorCall("setCustomTag", key, value)>>

\* C1: on every gateway, the four operations other than initialize, invoked
\* while isInitialized is false (an initialize closure may be waiting on the
\* UI thread), are rejected and make no vendor call; as long as the flag is
\* false the vendor's setCustomTag, getCurrentSessionId and
\* getCurrentSessionUrl have never been called.
NoVendorCallBeforeInitialize ==
    /\ (last.step = "handler" /\ last.op \in OtherOps /\ ~last.init)
          => (last.kind = "Rejected" /\ last.vcalls = <<>>)
    /\ ~isInitialized
          => /\ vendorCalls.setCustomTag = 0
             /\ vendorCalls.getCurrentSessionId = 0
             /\ vendorCalls.getCurrentSessionUrl = 0

\* C1 witness: a native gateway rejects setCustomTag with valid arguments
\* while an initialize closure is still waiting on the UI thread.
GatedWhileInitializePending ==
    /\ platform \in Native
    /\ uiQueue # <<>>
    /\ ~isInitialized
    /\ HandlerOf("setCustomTag", FALSE)
    /\ last.msg = MsgNotInitialized
    /\ vendorCalls.setCustomTag = 0

\* C2 as claimed: each of the four operations, invoked while isInitialized is
\* false, fails with NotInitialized whatever its arguments are.
NotInitializedBeforeValidation ==
    (last.step = "handler" /\ last.op \in OtherOps /\ ~last.init)
        => (last.kind = "Rejected" /\ ErrorKind(last.msg) = "NotInitialized")

\* Whether the gateway of p accepts the arguments of a setCustomTag / logEvent
\* call: the call succeeds once the gateway is initialized.
AcceptedWhenInitialized(p, op, a1, a2) ==
    IF op = "setCustomTag"
    THEN SetCustomTagOutcome(p, TRUE, a1, a2, FALSE).kind = "Resolved"
    ELSE LogEventOutcome(p, TRUE, a1, FALSE).kind = "Resolved"

\* C2 as amended: each of the four operations, invoked while isInitialized is
\* false, fails; getCurrentSessionId and getCurrentSessionUrl always with
\* NotInitialized, setCustomTag and logEvent with NotInitialized for every
\* argument on the web gateway, and on a native gateway with InvalidInput
\* when the gateway's argument checks reject the arguments and with
\* NotInitialized only when they accept them.
NotInitializedOrInvalidInput ==
    (last.step = "handler" /\ last.op \in OtherOps /\ ~last.init)
        => /\ last.kind = "Rejected"
           /\ ErrorKind(last.msg) =
                IF \/ platform = "web"
                   \/ last.op \in {"getCurrentSessionId", "getCurrentSessionUrl"}
                   \/ AcceptedWhenInitialized(platform, last.op, last.a1, last.a2)
                THEN "NotInitialized"
                ELSE "InvalidInput"

\* C2 witness: a native gateway that is not initialized reports a missing or
\* malformed setCustomTag argument as InvalidInput.
InvalidInputBeforeInitialize ==
    /\ platform \in Native
    /\ HandlerOf("setCustomTag", FALSE)
    /\ ErrorKind(last.msg) = "InvalidInput"

VendorInitializeAtMostOnce ==
    ~ /\ last.step = "closure"
      /\ isValidProjectId(last.a1)
      /\ \E i \in 1..Len(last.seen) : isValidProjectId(last.seen[i])

\* C5: initialize with a projectId that fails validProjectId is rejected with
\* InvalidInput on every gateway and in every state, makes no vendor call and
\* leaves the flag as it is; no closure ever carries such a projectId to the
\* vendor initialize.
InvalidProjectIdRejected ==
    /\ (last.step = "handler" /\ last.op = "initialize" /\ ~isValidProjectId(last.a1))
          => /\ last.kind = "Rejected"
             /\ ErrorKind(last.msg) = "InvalidInput"
             /\ last.vcalls = <<>>
             /\ last.flag = last.init
    /\ last.step = "closure" => isValidProjectId(last.a1)

\* C6: when the vendor initialize throws, the call is rejected with
\* InitializationFailure and isInitialized is false afterwards; an initialize
\* call with a valid projectId made while the flag is false is sent to the
\* vendor again (its closure is posted).
VendorInitializeFailureKeepsUninitialized ==
    /\ (last.step = "closure" /\ last.throws)
          => /\ last.kind = "Rejected"
             /\ ErrorKind(last.msg) = "InitializationFailure"
             /\ ~last.flag
             /\ ~isInitialized
    /\ (platform \in Native /\ HandlerOf("initialize", FALSE)
            /\ isValidProjectId(last.a1))
          => last.kind = "Dispatched"

\* C7: isInitialized starts false, and a step changes it only from false to
\* true and only when the step resolves an initialize call.
FlagSetOnlyBySuccessfulInitialize ==
    /\ ~isInitialized
    /\ [][isInitialized' # isInitialized
            => /\ ~isInitialized
               /\ isInitialized'
               /\ last'.op = "initialize"
               /\ last'.kind = "Resolved"]_vars

\* C7 witness: the closure of an initialize call has just set the flag.
FlagSetByClosure ==
    /\ isInitialized
    /\ last.step = "closure"
    /\ last.kind = "Resolved"
    /\ ~last.init

\* The outcome of setCustomTag(key = eventName, value = "true") in the state
\* and under the vendor behaviour of the last step.
AsSetCustomTag == SetCustomTagOutcome(platform, last.init, last.a1,
                                      <<"t", "r", "u", "e">>, last.throws)

\* C8 as claimed: in state Initialized logEvent(eventName) ends as
\* setCustomTag(eventName, "true") does (same outcome, same vendor calls),
\* and when it succeeds it has made exactly one vendor tag-setting call, with
\* the arguments (eventName, "true").
LogEventIsOneVendorTagCall ==
    HandlerOf("logEvent", TRUE)
        => /\ last.kind = AsSetCustomTag.kind
           /\ ErrorKind(last.msg) = ErrorKind(AsSetCustomTag.msg)
           /\ last.vcalls = AsSetCustomTag.vcalls
           /\ last.kind = "Resolved"
                 => last.vcalls = TagCall(last.a1, <<"t", "r", "u", "e">>)

\* C8 as amended: the same, but the one vendor tag-setting call is made on
\* the native gateways only; on the web gateway a successful logEvent, like a
\* successful setCustomTag, makes no vendor call.
LogEventIsSetCustomTagTrue ==
    HandlerOf("logEvent", TRUE)
        => /\ last.kind = AsSetCustomTag.kind
           /\ ErrorKind(last.msg) = ErrorKind(AsSetCustomTag.msg)
           /\ last.vcalls = AsSetCustomTag.vcalls
           /\ last.kind = "Resolved"
                 => last.vcalls = IF platform \in Native
                                  THEN TagCall(last.a1, <<"t", "r", "u", "e">>)
                                  ELSE <<>>

\* C8 witness: a native gateway has resolved a logEvent call.
LogEventResolved ==
    /\ platform \in Native
    /\ HandlerOf("logEvent", TRUE)
    /\ last.kind = "Resolved"
    /\ vendorCalls.setCustomTag >= 1

\* C9: on a native gateway in state Initialized, setCustomTag with a valid key
\* and a valid value makes exactly one vendor tag-setting call with the
\* caller's key and value (and succeeds unless the vendor throws); with an
\* invalid or missing key or value it is rejected with InvalidInput and makes
\* no vendor call.
SetCustomTagForwardsVerbatim ==
    (platform \in Native /\ HandlerOf("setCustomTag", TRUE))
        => IF isValidTagKey(last.a1) /\ isValidTagValue(last.a2)
           THEN /\ last.vcalls = TagCall(last.a1, last.a2)
                /\ ~last.throws => last.kind = "Resolved"
           ELSE /\ last.kind = "Rejected"
                /\ ErrorKind(last.msg) = "InvalidInput"
                /\ last.vcalls = <<>>

\* C10: in state Initialized, setCustomTag with a valid key and a present
\* value succeeds when the value has at most 1024 code units, the empty value
\* included (a native gateway forwards it to the vendor), and is rejected
\* with InvalidInput when the value is longer.
TagValueUpTo1024Accepted ==
    (HandlerOf("setCustomTag", TRUE) /\ isValidTagKey(last.a1) /\ last.a2 # Absent)
        => IF Len(last.a2) <= TagValueMaxLength
           THEN /\ ~last.throws => last.kind = "Resolved"
                /\ platform \in Native => last.vcalls = TagCall(last.a1, last.a2)
           ELSE /\ last.kind = "Rejected"
                /\ ErrorKind(last.msg) = "InvalidInput"

SessionOps == {"getCurrentSessionId", "getCurrentSessionUrl"}

\* C11: in state Initialized, a session query whose vendor call returns
\* succeeds; on a native gateway its result is the vendor's value when that is
\* a non-empty string and the no-value result (null or absent) when the vendor
\* returned nothing or an empty string; the result is never an empty string.
SessionQueryNormalized ==
    (last.step = "handler" /\ last.op \in SessionOps /\ last.init /\ ~last.throws)
        => /\ last.kind = "Resolved"
           /\ last.value # <<>>
           /\ platform \in Native =>
                 IF last.ret \in {Null, <<>>}
                 THEN last.value \in {Null, Absent}
                 ELSE last.value = last.ret

\* The last step was a handler of one of the four operations that ran in state
\* Initialized and whose vendor call raised an error.
VendorRaised ==
    last.step = "handler" /\ last.op \in OtherOps /\ last.init /\ last.throws

\* C12: when the vendor call of setCustomTag, logEvent, getCurrentSessionId or
\* getCurrentSessionUrl raises an error in state Initialized, the call is
\* rejected with DelegateFailure, isInitialized stays true, the failing call
\* was the handler's only vendor call (none to initialize, no closure posted),
\* and the call that follows is not refused with NotInitialized: a session
\* query whose vendor call returns is resolved.
VendorFailureIsDelegateFailure ==
    /\ [](VendorRaised =>
            /\ last.kind = "Rejected"
            /\ ErrorKind(last.msg) = "DelegateFailure"
            /\ last.flag /\ isInitialized
            /\ Len(last.vcalls) = 1
            /\ last.vcalls[1].fn # "initialize")
    /\ [][(VendorRaised /\ nCalls' = nCalls + 1)
            => /\ uiQueue' = uiQueue
               /\ last'.init
               /\ last'.kind = "Rejected" => ErrorKind(last'.msg) # "NotInitialized"
               /\ (last'.op \in SessionOps /\ ~last'.throws)
                     => last'.kind = "Resolved"]_vars

\* C12 witness: the vendor call of a setCustomTag the Android gateway made in
\* state Initialized raised an error and the call was rejected.
SetCustomTagVendorError ==
    /\ platform = "android"
    /\ HandlerOf("setCustomTag", TRUE)
    /\ last.throws
    /\ last.kind = "Rejected"
    /\ isInitialized

\* C13: the web gateway never reaches an analytics backend (no vendor call, no
\* closure posted) and follows one order in every operation: initialize is
\* resolved iff the projectId is valid and rejected with InvalidInput
\* otherwise; each other operation is rejected with NotInitialized while the
\* flag is false whatever its arguments, and once the flag is true it is
\* rejected with InvalidInput for an invalid argument and resolved with
\* nothing done otherwise, the two session queries always with null.
WebIsUniformNoOp ==
    platform = "web" =>
        /\ uiQueue = <<>>
        /\ vendorProjectId = Null
        /\ \A fn \in DOMAIN vendorCalls : vendorCalls[fn] = 0
        /\ last.step = "handler" =>
            /\ last.vcalls = <<>>
            /\ last.kind \in {"Resolved", "Rejected"}
            /\ last.kind = "Resolved" => last.value = Null
            /\ last.kind = "Resolved" <=>
                 CASE last.op = "initialize" -> isValidProjectId(last.a1)
                   [] last.op = "setCustomTag" ->
                        last.init /\ isValidTagKey(last.a1) /\ isValidTagValue(last.a2)
                   [] last.op = "logEvent" -> last.init /\ isValidEventName(last.a1)
                   [] OTHER -> last.init
            /\ last.kind = "Rejected" =>
                 ErrorKind(last.msg) =
                    IF last.op # "initialize" /\ ~last.init
                    THEN "NotInitialized" ELSE "InvalidInput"

\* C13 witness: the web gateway, initialized by a valid projectId, has
\* resolved a session query with null.
WebSessionQueryNull ==
    /\ platform = "web"
    /\ last.step = "handler" /\ last.op \in SessionOps /\ last.init
    /\ last.kind = "Resolved" /\ last.value = Null
    /\ isInitialized

\* ------------------------------------------- the validators on their own
\* Padding code units on each side of a validator input.
MaxPad == 1

PadUnits == {SP, LF, NBSP, SOH}
Pads == {Rep(w, k) : w \in PadUnits, k \in 0..MaxPad}
CoreHeads == {<<>>, <<"a">>}
CoreUnits == {"Z", "7", Hyphen, Underscore}
\* Lengths around the limits of the two patterns.
CoreLengths == {0, 1, ProjectIdMinLength - 2, ProjectIdMinLength - 1,
                ProjectIdMinLength, ProjectIdMaxLength - 1, ProjectIdMaxLength,
                ProjectIdMaxLength + 1, TagKeyTailMaxLength, TagKeyMaxLength,
                TagKeyMaxLength + 1}
\* What follows the core: nothing, a combining mark, an inner space.
CoreTails == {<<>>, <<COMBINING>>, <<SP, "b">>}

\* The strings the validators are applied to: a missing argument, and padded
\* runs of one code unit with an optional leading letter and tail.
ValidatorInputs ==
    {Absent} \cup
    {l \o h \o Rep(c, n) \o t \o r :
        l \in Pads, r \in Pads, h \in CoreHeads, c \in CoreUnits,
        n \in CoreLengths, t \in CoreTails}

\* A nil argument never reaches a Swift validator (the handler's guard let
\* rejects it first); the validators of definitions.ts and of the README
\* check for it themselves.
ValidatorInit ==
    /\ platform = "web"
    /\ isInitialized = FALSE
    /\ uiQueue = <<>>
    /\ vendorCalls = [initialize |-> 0, setCustomTag |-> 0,
                      getCurrentSessionId |-> 0, getCurrentSessionUrl |-> 0]
    /\ vendorSession = [id |-> Null, url |-> Null]
    /\ nCalls = 0
    /\ completions = [resolved |-> 0, rejected |-> 0]
    /\ last = NoStep
    /\ vendorProjectId = Null
    /\ input \in ValidatorInputs
    /\ verdict = NoVerdict

Validated(fn, js, ios, readme) ==
    /\ verdict' = [fn |-> fn, js |-> js, ios |-> input # Absent /\ ios,
                   readme |-> readme]
    /\ UNCHANGED <<platform, isInitialized, uiQueue, vendorCalls, vendorSession,
                   nCalls, completions, last, vendorProjectId, input>>

ValidateProjectId ==
    /\ verdict = NoVerdict
    /\ Validated("isValidProjectId", isValidProjectId(input),
                 IosIsValidProjectId(input), ReadmeIsValidProjectId(input))

ValidateTagKey ==
    /\ verdict = NoVerdict
    /\ Validated("isValidTagKey", isValidTagKey(input),
                 IosIsValidTagKey(input), ReadmeIsValidTagKey(input))

ValidateEventName ==
    /\ verdict = NoVerdict
    /\ Validated("isValidEventName", isValidEventName(input),
                 IosIsValidEventName(input), ReadmeIsValidEventName(input))

ValidatorNext == ValidateProjectId \/ ValidateTagKey \/ ValidateEventName

ValidatorSpec == ValidatorInit /\ [][ValidatorNext]_vars

\* What "trimming" strips is not the same on every platform (a no-break
\* space, a control character): a verdict is held against the rule only when
\* it is wrong both for the narrowest and for the widest trimming.
TrimmedNarrowly(s) == Trim(s, {SP, LF})
TrimmedWidely(s) == Trim(s, PadUnits)

Verdicts == {verdict.js, verdict.ios, verdict.readme}

\* C14: on every platform's validator, validProjectId(s) is true iff trimming
\* s yields 8 to 16 ASCII letters, digits and hyphens: true whenever the
\* narrowly trimmed s matches, false whenever the widely trimmed s does not;
\* a missing or empty s is rejected.
ProjectIdVerdictIsTheRule ==
    verdict.fn = "isValidProjectId" =>
        /\ (input = Absent \/ input = <<>>) => Verdicts = {FALSE}
        /\ (input # Absent /\ MatchesProjectIdPattern(TrimmedNarrowly(input)))
              => Verdicts = {TRUE}
        /\ (input # Absent /\ ~MatchesProjectIdPattern(TrimmedWidely(input)))
              => Verdicts = {FALSE}

\* C15: on every platform's validator validTagKey(s) and validEventName(s)
\* return the same result, and that result is true iff trimming s yields 1 to
\* 64 code units, an ASCII letter first and ASCII letters, digits or
\* underscores after it: true whenever the narrowly trimmed s matches, false
\* whenever the widely trimmed s does not.
TagKeyVerdictIsTheRule ==
    /\ isValidTagKey(input) = isValidEventName(input)
    /\ input # Absent => IosIsValidTagKey(input) = IosIsValidEventName(input)
    /\ ReadmeIsValidTagKey(input) = ReadmeIsValidEventName(input)
    /\ verdict.fn \in {"isValidTagKey", "isValidEventName"} =>
        /\ (input # Absent /\ MatchesTagKeyPattern(TrimmedNarrowly(input)))
              => Verdicts = {TRUE}
        /\ (input = Absent \/ ~MatchesTagKeyPattern(TrimmedWidely(input)))
              => Verdicts = {FALSE}

\* C16: on a native gateway every step that calls the vendor SDK (initialize,
\* the tag-setting call, a session getter) runs on the main / UI thread,
\* never on the thread the bridge invoked the plugin method on.
VendorCallsOnMainThread ==
    (platform \in Native /\ last.vcalls # <<>>) => last.thread = "main"

\* C17: once an initialize(p1) has succeeded, an initialize call with a valid
\* projectId is resolved without a vendor call and without posting a closure,
\* and the vendor SDK is never initialized again with another valid projectId:
\* the projectId it was configured with stays the same.
ProjectIdImmutableOnceAccepted ==
    /\ []((HandlerOf("initialize", TRUE) /\ isValidProjectId(last.a1))
            => last.kind = "Resolved" /\ last.vcalls = <<>>)
    /\ [][(vendorProjectId # Null /\ vendorProjectId' # vendorProjectId)
            => ~isValidProjectId(vendorProjectId')]_vars

\* The main / UI thread keeps running the closures posted to it, and a vendor
\* call returns or throws: a posted closure is never left in the queue for ever.
\* The calls of the runs in which completion is followed to the end: one
\* argument of each kind the handlers tell apart.
FairProjectIdInputs ==
    { Absent, <<"s", "h", "o", "r", "t">>,
      <<"a", "b", "c", "d", "e", "f", "g", "h">> }
FairTagInputs ==
    { <<Absent, Absent>>, <<<<"p", "l", "a", "n">>, <<"t", "r", "u", "e">>>> }
FairEventNameInputs == { <<"p", "l", "a", "n">>, <<"1", "t", "y", "p", "e">> }

FairNext ==
    \/ \E projectId \in FairProjectIdInputs : Initialize(projectId)
    \/ \E kv \in FairTagInputs, throws \in VendorThrows(platform) :
          SetCustomTag(kv[1], kv[2], throws)
    \/ \E eventName \in FairEventNameInputs, throws \in VendorThrows(platform) :
          LogEvent(eventName, throws)
    \/ \E throws \in VendorThrows(platform) : GetCurrentSessionId(throws)
    \/ \E throws \in VendorThrows(platform) : GetCurrentSessionUrl(throws)
    \/ \E throws \in VendorThrows(platform) : RunOnUiThread(throws)
    \/ \E s \in VendorSessions : VendorSessionChange(s)

FairSpec ==
    /\ Init
    /\ [][FairNext]_vars
    /\ WF_vars(\E throws \in VendorThrows(platform) : RunOnUiThread(throws))

\* C18: every call is completed exactly once: at any moment each call issued
\* has been resolved once, or rejected once, or is the one pending call of a
\* closure still posted to the main / UI thread, and every posted closure is
\* run in the end, so that no call stays pending.
EveryCallCompletesOnce ==
    /\ [](nCalls = completions.resolved + completions.rejected + Len(uiQueue))
    /\ [](last.step # "none" => last.kind \in {"Resolved", "Rejected", "Dispatched"})
    /\ [](last.kind = "Dispatched" => last.step = "handler" /\ last.op = "initialize")
    /\ \A n \in 1..MaxCalls : (Len(uiQueue) = n) ~> (Len(uiQueue) < n)
    /\ <>[](nCalls = completions.resolved + completions.rejected)

\* C18 witness: three initialize calls were pending at once and all of them
\* have been completed by their closures, one by one.
AllPendingInitializeCompleted ==
    /\ platform \in Native
    /\ nCalls = 3
    /\ uiQueue = <<>>
    /\ last.step = "closure"
    /\ Len(last.seen) = 2
    /\ completions.resolved + completions.rejected = 3

\* C19: a native gateway keeps no copy of the session identity: a resolved
\* getCurrentSessionId / getCurrentSessionUrl has made exactly one vendor
\* query, its own getter, and returns what the vendor holds at that moment
\* (a vendor null as null or as an absent key); and the vendor's session id
\* and url change only in steps in which this layer does nothing.
SessionIdentityIsLive ==
    /\ []((platform \in Native /\ last.step = "handler" /\ last.op \in SessionOps
              /\ last.kind = "Resolved")
            => /\ last.vcalls = <<VendorCall(last.op, <<>>, <<>>)>>
               /\ \/ last.value = last.ret
                  \/ last.ret = Null /\ last.value = Absent)
    /\ [][(platform \in Native /\ nCalls' = nCalls + 1 /\ last'.kind = "Resolved")
            => /\ last'.op = "getCurrentSessionId" => last'.ret = vendorSession.id
               /\ last'.op = "getCurrentSessionUrl" => last'.ret = vendorSession.url]_vars
    /\ [][vendorSession' # vendorSession
            => UNCHANGED <<nCalls, uiQueue, last, completions, vendorCalls,
                           isInitialized>>]_vars

\* C19 witness: after the vendor has changed its session, a second session id
\* query of a native gateway returns the id the vendor holds now.
SecondReadSeesVendorChange ==
    /\ platform \in Native
    /\ HandlerOf("getCurrentSessionId", TRUE)
    /\ last.kind = "Resolved"
    /\ vendorCalls.getCurrentSessionId >= 2
    /\ last.value = <<"s", "2">>
    /\ vendorSession.id = <<"s", "2">>

\* C20: every identifier that reaches the vendor SDK matches its pattern as
\* it is passed: the projectId of a vendor initialize matches
\* ^[A-Za-z0-9-]{8,16}$, and the key of a vendor tag-setting call (made by
\* setCustomTag or by logEvent) matches ^[A-Za-z][A-Za-z0-9_]{0,63}$.
VendorIdentifiersMatchPatterns ==
    \A i \in 1..Len(last.vcalls) :
        /\ last.vcalls[i].fn = "initialize"
              => MatchesProjectIdPattern(last.vcalls[i].a1)
        /\ last.vcalls[i].fn = "setCustomTag"
              => MatchesTagKeyPattern(last.vcalls[i].a1)

\* C21: when an initialize call has been resolved, isInitialized is true at
\* that moment (a handler that resolves at once found it true, a closure and
\* ClarityWeb.initialize set it before they resolve); the flag, once true, is
\* never cleared; and a setCustomTag, logEvent, getCurrentSessionId or
\* getCurrentSessionUrl call fails with NotInitialized only when it found the
\* flag false: none issued after a resolved initialize does.
ResolvedInitializeMeansInitialized ==
    /\ []((last.op = "initialize" /\ last.kind = "Resolved")
            => last.flag /\ isInitialized)
    /\ [][isInitialized => isInitialized']_vars
    /\ []((last.step = "handler" /\ last.op \in OtherOps
              /\ last.kind = "Rejected" /\ ErrorKind(last.msg) = "NotInitialized")
            => ~last.init)
    /\ [][((last.op = "initialize" /\ last.kind = "Resolved") /\ nCalls' = nCalls + 1
              /\ last'.op \in OtherOps)
            => last'.init /\ ErrorKind(last'.msg) # "NotInitialized"]_vars

\* C21 witness: on a native gateway the closure of an initialize call has
\* resolved it, and the session url query issued next was resolved.
QueryAfterResolvedInitialize ==
    /\ platform \in Native
    /\ vendorProjectId # Null
    /\ nCalls = 2
    /\ completions.resolved = 2
    /\ HandlerOf("getCurrentSessionUrl", TRUE)
    /\ last.kind = "Resolved"

\* What the gateway of p does with the call (op, a1, a2) when it finds the
\* flag at init and the vendor does not throw.
OutcomeOn(p, op, init, a1, a2) ==
    CASE op = "initialize" -> InitializeOutcome(p, init, a1)
      [] op = "setCustomTag" -> SetCustomTagOutcome(p, init, a1, a2, FALSE)
      [] op = "logEvent" -> LogEventOutcome(p, init, a1, FALSE)
      [] op = "getCurrentSessionId" ->
            GetCurrentSessionIdOutcome(p, init, vendorSession.id, FALSE)
      [] OTHER -> GetCurrentSessionUrlOutcome(p, init, vendorSession.url, FALSE)

\* C22: the iOS gateway and the Android gateway treat every call alike: a
\* call handled by one of them, the vendor not throwing, ends in the same
\* outcome kind (success, a closure posted, or the same kind of error) and
\* makes the same vendor calls with the same arguments as the other gateway
\* makes of it in the same state.  Both start with the flag false and set it
\* in the same closure, so the first call of a run on which the two differ is
\* a call sequence with different outcomes.
IosAndAndroidAgree ==
    (platform \in {"ios", "android"} /\ last.step = "handler" /\ ~last.throws)
        => \A p \in {"ios", "android"} :
              LET out == OutcomeOn(p, last.op, last.init, last.a1, last.a2)
              IN  /\ out.kind = last.kind
                  /\ ErrorKind(out.msg) = ErrorKind(last.msg)
                  /\ out.vcalls = last.vcalls

====
